---- MODULE Spec2Model ----
(***************************************************************************)
(* Review-queue selection and scheduling engine of the Anki task web app.  *)
(*                                                                         *)
(* The store is the SQLite collection (tables cards, notes, decks, col);   *)
(* the operations are the functions of web/src/lib/db.ts, the handlers of  *)
(* the /api/review route, the DELETE handler of /api/cards, the agent chat *)
(* route with its in-memory sessions, and the handlers of the review page. *)
(* Time is Math.floor(Date.now() / 1000), the only form in which the       *)
(* modelled code uses the clock.                                           *)
(***************************************************************************)
EXTENDS Integers, Sequences, FiniteSets, TLC

VARIABLES
    cards,   \* table cards: card id -> row
    notes,   \* table notes: set of note ids
    decks,   \* table decks: set of deck ids (never written by the app)
    col,     \* table col: sequence of rows [crt], empty or one row
    clock,   \* wall clock in Unix seconds, value of the last Date.now() read
    resp,    \* value returned by the last call or HTTP handler
    page,    \* React state of the review page (one browser tab)
    tasks,   \* async handlers in flight, each suspended at an await
    sessions \* the chat route's Map from session id to session

vars == <<cards, notes, decks, col, clock, resp, page, tasks, sessions>>

-----------------------------------------------------------------------------
(* Program constants *)

\* db.ts:187.  Deck ids are opaque keys that are only compared for equality;
\* the 13-digit id 1740140533109 is written with its leading digits because
\* TLC integers are 32 bits wide.
URGENT_DECK_ID == 17401

\* db.ts:200, the divisor of the day number
SecondsPerDay == 86400

\* type ReviewAction (db.ts:299)
ReviewAction == {"repeat", "soon", "later", "complete"}

-----------------------------------------------------------------------------
(* Bounds of the model *)

\* Creation time of the collection (col.crt) and the day on whose eve the
\* behaviours start
Crt == 1700000000
InitDay == 100

\* The clock advances by at most MaxSecs single seconds and MaxDays whole days
MaxSecs == 1
MaxDays == 1

\* At most MaxReviews review actions are recorded in one behaviour
MaxReviews == 1

\* Math.random() is drawn from the grid {0/RandRes, ..., (RandRes-1)/RandRes}
RandRes == 3

\* One second before day InitDay of the collection begins
InitClock == Crt + InitDay * SecondsPerDay - 1

CardIds == {1, 2, 3}

\* A card id and a deck id that no row has, and the second deck of the store
UnknownCardId == 9
UnknownDeckId == 7
OtherDeckId == 1

-----------------------------------------------------------------------------
(* Clock *)

SecsUsed(t) == (t - InitClock) % SecondsPerDay
DaysUsed(t) == (t - InitClock) \div SecondsPerDay

\* Whole days that may pass between two calls: one day, and six days, which
\* with the second before midnight reaches both sides of a due day a week on
ArrivalDays == {1, 6}

\* Times at which a call may start: now, or days after the previous call
Arrivals ==
    {clock} \cup (IF DaysUsed(clock) < MaxDays
                  THEN {clock + d * SecondsPerDay : d \in ArrivalDays}
                  ELSE {})

\* The values of n successive reads of Math.floor(Date.now() / 1000) from time
\* t on: each read returns the time of the previous one or a later second.
RECURSIVE ClockReads(_, _)
ClockReads(n, t) ==
    IF n = 0 THEN {<<>>}
    ELSE LET next == {t} \cup (IF SecsUsed(t) < MaxSecs THEN {t + 1} ELSE {})
         IN  UNION {{<<u>> \o s : s \in ClockReads(n - 1, u)} : u \in next}

\* All read sequences of a call that reads the clock n times
Reads(n) == UNION {ClockReads(n, t) : t \in Arrivals}

Last(r) == r[Len(r)]

-----------------------------------------------------------------------------
(* Functions of db.ts.  db is the open database, the value of getDb(); r is *)
(* the sequence of the clock reads of a call, in the order of the reads.    *)

\* getDb(): the tables of collection.sqlite
Db == [cards |-> cards, notes |-> notes, decks |-> decks, col |-> col]

\* col?.crt || ... : the col row is missing or its crt is 0
CrtMissing(db) == db.col = <<>> \/ db.col[1].crt = 0

\* Clock reads of getCollectionCreation, and of a db.ts function that calls
\* getTodayDayNumber and reads `now` itself
CrtReads(db) == IF CrtMissing(db) THEN 1 ELSE 0
NumReads(db) == CrtReads(db) + 2

\* Variant: the creation time is taken from the clock at every call
getCollectionCreation_FromClock(db, r) == r[1]

\* getCollectionCreation: col?.crt || Math.floor(Date.now() / 1000)
getCollectionCreation(db, r) ==
    IF CrtMissing(db) THEN r[1] ELSE db.col[1].crt

\* getTodayDayNumber: crt first, then now = Math.floor(Date.now() / 1000)
getTodayDayNumber(db, r) ==
    LET crt == getCollectionCreation(db, r)
        now == r[CrtReads(db) + 1]
    IN  (now - crt) \div SecondsPerDay

\* Variant: a review card is due only after its day
IsDue_StrictReview(c, todayDayNum, nowTimestamp) ==
    /\ c.queue >= 0
    /\ \/ (c.queue = 2 /\ c.due < todayDayNum)
       \/ (c.queue \in {1, 3} /\ c.due <= nowTimestamp)
       \/ c.queue = 0

\* Variant: a new card is compared with the day number like a review card
IsDue_NewByDue(c, todayDayNum, nowTimestamp) ==
    /\ c.queue >= 0
    /\ \/ (c.queue \in {0, 2} /\ c.due <= todayDayNum)
       \/ (c.queue \in {1, 3} /\ c.due <= nowTimestamp)

\* Variant: review cards are recognised by their type, not by their queue
IsDue_ByType(c, todayDayNum, nowTimestamp) ==
    \/ (c.type = 2 /\ c.due <= todayDayNum)
    \/ (c.queue \in {1, 3} /\ c.due <= nowTimestamp)
    \/ c.queue = 0

\* The WHERE clause shared by the five queue queries
IsDue(c, todayDayNum, nowTimestamp) ==
    /\ c.queue >= 0
    /\ \/ (c.queue = 2 /\ c.due <= todayDayNum)
       \/ (c.queue \in {1, 3} /\ c.due <= nowTimestamp)
       \/ c.queue = 0

\* JOIN notes n ON c.nid = n.id JOIN decks d ON c.did = d.id
Joined(db, c) == c.nid \in db.notes /\ c.did \in db.decks

\* Rows of a result set in rowid order
RECURSIVE RowsOf(_)
RowsOf(ids) ==
    IF ids = {} THEN <<>>
    ELSE LET m == CHOOSE x \in ids : \A y \in ids : x <= y
         IN  <<m>> \o RowsOf(ids \ {m})

\* Variant: the draw for index i is taken below i (Sattolo's cycle algorithm)
RandomIndex_Sattolo(u, i) == (u * i) \div RandRes

\* Math.floor(Math.random() * (i + 1)) for Math.random() = u / RandRes
RandomIndex(u, i) == (u * (i + 1)) \div RandRes

\* The streams of n values of Math.random()
RandomDraws(n) == [1..n -> 0..(RandRes - 1)]

\* Variant: result[i] = result[j] without the exchange
Swap_Overwrite(s, i, j) ==
    [k \in 1..Len(s) |-> IF k = i + 1 THEN s[j + 1] ELSE s[k]]

\* [result[i], result[j]] = [result[j], result[i]] with 0-based i, j
Swap(s, i, j) ==
    [k \in 1..Len(s) |-> IF k = i + 1 THEN s[j + 1]
                         ELSE IF k = j + 1 THEN s[i + 1] ELSE s[k]]

\* The loop of shuffleArray from index i down to 1; the draw for index i is
\* the (Len - i)-th value of the stream
RECURSIVE ShuffleLoop(_, _, _)
ShuffleLoop(result, i, us) ==
    IF i > 0
    THEN ShuffleLoop(Swap(result, i, RandomIndex(us[Len(result) - i], i)), i - 1, us)
    ELSE result

\* shuffleArray: the returned list and the argument list as the call leaves it
shuffleArray(array, us) ==
    [result |-> ShuffleLoop(array, Len(array) - 1, us), array |-> array]

\* Number of Math.random() calls of shuffleArray on a list of n elements
NumDraws(n) == IF n > 0 THEN n - 1 ELSE 0

\* First SELECT of getReviewQueue, and the SELECT of getReviewQueueByDeck
DueRowsOfDeck(db, deckId, todayDayNum, nowTimestamp) ==
    RowsOf({id \in DOMAIN db.cards :
               /\ Joined(db, db.cards[id])
               /\ db.cards[id].did = deckId
               /\ IsDue(db.cards[id], todayDayNum, nowTimestamp)})

\* Variant: the second SELECT leaves the urgent deck out
AllDueRows_WithoutUrgent(db, todayDayNum, nowTimestamp) ==
    RowsOf({id \in DOMAIN db.cards :
               /\ Joined(db, db.cards[id])
               /\ db.cards[id].did # URGENT_DECK_ID
               /\ IsDue(db.cards[id], todayDayNum, nowTimestamp)})

\* Second SELECT of getReviewQueue
AllDueRows(db, todayDayNum, nowTimestamp) ==
    RowsOf({id \in DOMAIN db.cards :
               /\ Joined(db, db.cards[id])
               /\ IsDue(db.cards[id], todayDayNum, nowTimestamp)})

\* Variant: the flag of the gate is read the wrong way round
getReviewQueue_FlagInverted(db, includeNonUrgent, r, us1, us2) ==
    LET todayDayNum == getTodayDayNumber(db, r)
        nowTimestamp == Last(r)
        urgentCards == DueRowsOfDeck(db, URGENT_DECK_ID, todayDayNum, nowTimestamp)
        shuffledUrgent == shuffleArray(urgentCards, us1).result
        allDueCards == AllDueRows(db, todayDayNum, nowTimestamp)
    IN  IF Len(shuffledUrgent) > 0 /\ includeNonUrgent
        THEN shuffledUrgent
        ELSE shuffleArray(allDueCards, us2).result

\* Variant: the gate does not test that urgent cards are due
getReviewQueue_NoRelease(db, includeNonUrgent, r, us1, us2) ==
    LET todayDayNum == getTodayDayNumber(db, r)
        nowTimestamp == Last(r)
        urgentCards == DueRowsOfDeck(db, URGENT_DECK_ID, todayDayNum, nowTimestamp)
        shuffledUrgent == shuffleArray(urgentCards, us1).result
        allDueCards == AllDueRows(db, todayDayNum, nowTimestamp)
    IN  IF ~includeNonUrgent
        THEN shuffledUrgent
        ELSE shuffleArray(allDueCards, us2).result

\* getReviewQueue(includeNonUrgent); us1 and us2 are the random streams of
\* the two shuffles
getReviewQueue(db, includeNonUrgent, r, us1, us2) ==
    LET todayDayNum == getTodayDayNumber(db, r)
        nowTimestamp == Last(r)
        urgentCards == DueRowsOfDeck(db, URGENT_DECK_ID, todayDayNum, nowTimestamp)
        shuffledUrgent == shuffleArray(urgentCards, us1).result
        allDueCards == AllDueRows(db, todayDayNum, nowTimestamp)
    IN  IF Len(shuffledUrgent) > 0 /\ ~includeNonUrgent
        THEN shuffledUrgent
        ELSE shuffleArray(allDueCards, us2).result

\* getUrgentCount: SELECT COUNT(*) FROM cards, without joins
getUrgentCount(db, r) ==
    LET todayDayNum == getTodayDayNumber(db, r)
        nowTimestamp == Last(r)
    IN  Cardinality({id \in DOMAIN db.cards :
                        /\ db.cards[id].did = URGENT_DECK_ID
                        /\ IsDue(db.cards[id], todayDayNum, nowTimestamp)})

\* dueCount of one deck in getDecksWithDueCounts (LEFT JOIN cards)
DueCount(db, d, todayDayNum, nowTimestamp) ==
    Cardinality({id \in DOMAIN db.cards :
                    /\ db.cards[id].did = d
                    /\ IsDue(db.cards[id], todayDayNum, nowTimestamp)})

\* ORDER BY urgent deck first, dueCount DESC (deck names are not modelled;
\* ties are broken by deck id)
RECURSIVE DeckOrder(_, _)
DeckOrder(ds, count) ==
    IF ds = {} THEN <<>>
    ELSE LET rank(d) == IF d = URGENT_DECK_ID THEN 0 ELSE 1
             before(a, b) == \/ rank(a) < rank(b)
                             \/ rank(a) = rank(b) /\ count[a] > count[b]
                             \/ rank(a) = rank(b) /\ count[a] = count[b] /\ a <= b
             m == CHOOSE x \in ds : \A y \in ds : before(x, y)
         IN  <<[id |-> m, dueCount |-> count[m]]>> \o DeckOrder(ds \ {m}, count)

\* getDecksWithDueCounts: GROUP BY d.id HAVING dueCount > 0
getDecksWithDueCounts(db, r) ==
    LET todayDayNum == getTodayDayNumber(db, r)
        nowTimestamp == Last(r)
        count == [d \in db.decks |-> DueCount(db, d, todayDayNum, nowTimestamp)]
    IN  DeckOrder({d \in db.decks : count[d] > 0}, count)

\* Variant: the urgent deck also gates the queue of another deck
getReviewQueueByDeck_Gated(db, deckId, r, us) ==
    LET todayDayNum == getTodayDayNumber(db, r)
        nowTimestamp == Last(r)
    IN  IF /\ deckId # URGENT_DECK_ID
           /\ DueRowsOfDeck(db, URGENT_DECK_ID, todayDayNum, nowTimestamp) # <<>>
        THEN <<>>
        ELSE shuffleArray(DueRowsOfDeck(db, deckId, todayDayNum, nowTimestamp),
                          us).result

\* getReviewQueueByDeck(deckId)
getReviewQueueByDeck(db, deckId, r, us) ==
    LET todayDayNum == getTodayDayNumber(db, r)
        nowTimestamp == Last(r)
    IN  shuffleArray(DueRowsOfDeck(db, deckId, todayDayNum, nowTimestamp), us).result

\* Variant: the card is due from the second after the action on
SetRepeat_DueNextSecond(row, now, todayDayNum) ==
    [row EXCEPT !.due = now + 1, !.ivl = 0, !.mod = now, !.reps = @ + 1,
                !.type = 1, !.queue = 1]

\* Variant: repeat counts as a lapse
SetRepeat_CountsLapse(row, now, todayDayNum) ==
    [row EXCEPT !.due = now, !.ivl = 0, !.mod = now, !.reps = @ + 1,
                !.lapses = @ + 1, !.type = 1, !.queue = 1]

\* case 'repeat': UPDATE cards SET due = now, ivl = 0, mod = now,
\* reps = reps + 1, type = 1, queue = 1
SetRepeat(row, now, todayDayNum) ==
    [row EXCEPT !.due = now, !.ivl = 0, !.mod = now, !.reps = @ + 1,
                !.type = 1, !.queue = 1]

\* Variant: soon keeps the card a review card but writes a due time in seconds
SetSoon_Seconds(row, now, todayDayNum) ==
    [row EXCEPT !.due = now + SecondsPerDay, !.ivl = 1, !.mod = now,
                !.reps = @ + 1, !.type = 2, !.queue = 2]

\* Variant: soon makes the card due on the day of the action
SetSoon_SameDay(row, now, todayDayNum) ==
    [row EXCEPT !.due = todayDayNum, !.ivl = 1, !.mod = now, !.reps = @ + 1,
                !.type = 2, !.queue = 2]

\* case 'soon': UPDATE cards SET due = todayDayNum + 1, ivl = 1, mod = now,
\* reps = reps + 1, type = 2, queue = 2
SetSoon(row, now, todayDayNum) ==
    [row EXCEPT !.due = todayDayNum + 1, !.ivl = 1, !.mod = now, !.reps = @ + 1,
                !.type = 2, !.queue = 2]

\* Variant: later leaves mod as it was
SetLater_KeepsMod(row, now, todayDayNum) ==
    [row EXCEPT !.due = todayDayNum + 7, !.ivl = 7, !.reps = @ + 1,
                !.type = 2, !.queue = 2]

\* Variant: the due day is counted from the Unix epoch (getTodayAsDays)
SetLater_EpochDays(row, now, todayDayNum) ==
    [row EXCEPT !.due = (now \div SecondsPerDay) + 7, !.ivl = 7, !.mod = now,
                !.reps = @ + 1, !.type = 2, !.queue = 2]

\* case 'later': UPDATE cards SET due = todayDayNum + 7, ivl = 7, mod = now,
\* reps = reps + 1, type = 2, queue = 2
SetLater(row, now, todayDayNum) ==
    [row EXCEPT !.due = todayDayNum + 7, !.ivl = 7, !.mod = now, !.reps = @ + 1,
                !.type = 2, !.queue = 2]

\* Variant: the UPDATE also files the card under the urgent deck
SetComplete_ChangesDeck(row, now, todayDayNum) ==
    [row EXCEPT !.queue = 0 - 1, !.mod = now, !.reps = @ + 1,
                !.did = URGENT_DECK_ID]

\* Variant: the UPDATE also clears due and ivl
SetComplete_ClearsDue(row, now, todayDayNum) ==
    [row EXCEPT !.queue = 0 - 1, !.mod = now, !.reps = @ + 1, !.due = 0, !.ivl = 0]

\* case 'complete': UPDATE cards SET queue = -1, mod = now, reps = reps + 1
SetComplete(row, now, todayDayNum) ==
    [row EXCEPT !.queue = 0 - 1, !.mod = now, !.reps = @ + 1]

\* Variant: the UPDATE statements have no WHERE clause
updateCardSchedule_AllRows(db, cardId, action, r) ==
    LET now == r[1]
        todayDayNum == getTodayDayNumber(db, Tail(r))
        cs == db.cards
    IN  CASE action = "repeat" ->
                [id \in DOMAIN cs |-> SetRepeat(cs[id], now, todayDayNum)]
           [] action = "soon" ->
                [id \in DOMAIN cs |-> SetSoon(cs[id], now, todayDayNum)]
           [] action = "later" ->
                [id \in DOMAIN cs |-> SetLater(cs[id], now, todayDayNum)]
           [] action = "complete" ->
                [id \in DOMAIN cs |-> SetComplete(cs[id], now, todayDayNum)]
           [] OTHER -> cs

\* updateCardSchedule(cardId, action): the cards table after the call.  `now`
\* is read first, then the day number.  An UPDATE ... WHERE id = ? that
\* matches no row changes nothing; an action outside the four cases falls
\* through the switch.
updateCardSchedule(db, cardId, action, r) ==
    LET now == r[1]
        todayDayNum == getTodayDayNumber(db, Tail(r))
        cs == db.cards
    IN  IF cardId \notin DOMAIN cs THEN cs
        ELSE CASE action = "repeat" ->
                    [cs EXCEPT ![cardId] = SetRepeat(@, now, todayDayNum)]
               [] action = "soon" ->
                    [cs EXCEPT ![cardId] = SetSoon(@, now, todayDayNum)]
               [] action = "later" ->
                    [cs EXCEPT ![cardId] = SetLater(@, now, todayDayNum)]
               [] action = "complete" ->
                    [cs EXCEPT ![cardId] = SetComplete(@, now, todayDayNum)]
               [] OTHER -> cs

-----------------------------------------------------------------------------
(* Initial store: an Anki collection whose rows are referentially intact *)

Row(nid, did, type, queue, due, ivl, reps, lapses) ==
    [nid |-> nid, did |-> did, type |-> type, queue |-> queue, due |-> due,
     ivl |-> ivl, reps |-> reps, lapses |-> lapses, mod |-> Crt]

\* Card 1, of the urgent deck: a review card due on the eve of day InitDay
\* (due at the start) or on day InitDay (due from midnight on)
InitRows1 ==
    {Row(101, URGENT_DECK_ID, 2, 2, InitDay - 1, 3, 0, 0),
     Row(101, URGENT_DECK_ID, 2, 2, InitDay, 3, 0, 0)}

\* Card 2, of either deck, sharing the note of card 1: a new card with a
\* large due position that has 3 reviews and 1 lapse behind it
InitRows2 ==
    {Row(101, d, 0, 0, 2000000000, 0, 3, 1) : d \in {URGENT_DECK_ID, OtherDeckId}}

\* Card 3, of the other deck: a new card
InitRows3 ==
    {Row(102, OtherDeckId, 0, 0, 0, 0, 0, 0)}

NoResp == [op |-> "none"]

\* The value null of the page's selectedDeckId; deck ids are positive and -1
\* stands for "all decks"
NoDeck == 0

\* The useState initial values of ReviewPage.  showBack, reviewedCount and
\* urgentDeckId are left out: no handler reads them to decide anything
InitialPage ==
    [cards |-> <<>>, urgentCount |-> 0, isBlocking |-> FALSE,
     currentIndex |-> 0, loading |-> TRUE, sessionComplete |-> FALSE,
     decks |-> {}, selectedDeckId |-> NoDeck]

\* No browser tab is open and no chat session exists
InitClient ==
    /\ page = InitialPage
    /\ tasks = <<>>
    /\ sessions = <<>>

InitTables ==
    /\ notes = {101, 102}
    /\ decks = {URGENT_DECK_ID, OtherDeckId}
    /\ col = <<[crt |-> Crt]>>
    /\ clock = InitClock
    /\ resp = NoResp
    /\ InitClient

Init ==
    /\ \E r1 \in InitRows1, r2 \in InitRows2, r3 \in InitRows3 :
          cards = (1 :> r1) @@ (2 :> r2) @@ (3 :> r3)
    /\ InitTables

\* A store of one card with an arbitrary scheduling state: every queue code
\* of the Anki schema (-3, -2 buried, -1 suspended, 0 new, 1 learning,
\* 2 review, 3 relearning, 4 preview), every type, both decks, and due values
\* on both sides of the day number and of the clock
DueValues ==
    {0, InitDay - 1, InitDay, InitDay + 1,
     InitClock, InitClock + 1, InitClock + 2, 2000000000}

InitDue ==
    /\ \E q \in (0 - 3)..4, ty \in 0..3, due \in DueValues,
          d \in {URGENT_DECK_ID, OtherDeckId} :
          cards = (1 :> Row(101, d, ty, q, due, 3, 3, 0))
    /\ InitTables

-----------------------------------------------------------------------------
(* Calls of the db.ts functions *)

RECURSIVE SumReps(_, _)
SumReps(cs, ids) ==
    IF ids = {} THEN 0
    ELSE LET id == CHOOSE x \in ids : TRUE
         IN  cs[id].reps + SumReps(cs, ids \ {id})

\* Review actions recorded so far: card 2 starts with 3 repetitions
ReviewsDone == SumReps(cards, DOMAIN cards) - 3

\* The engine is synchronous and serves one call at a time: a call starts
\* when the caller holds no unread result
Idle == resp = NoResp

\* The caller takes the value that the call returned
Return ==
    /\ ~Idle
    /\ resp' = NoResp
    /\ UNCHANGED <<page, tasks, sessions, cards, notes, decks, col, clock>>

\* The day number and the timestamp that a query with reads r compares with
Snapshot(db, r) ==
    [todayDayNum |-> getTodayDayNumber(db, r), nowTimestamp |-> Last(r)]

GetReviewQueue(includeNonUrgent, r, us1, us2) ==
    /\ Idle
    /\ resp' = [op |-> "getReviewQueue", includeNonUrgent |-> includeNonUrgent,
                at |-> Snapshot(Db, r),
                cards |-> getReviewQueue(Db, includeNonUrgent, r, us1, us2)]
    /\ clock' = Last(r)
    /\ UNCHANGED <<page, tasks, sessions, cards, notes, decks, col>>

GetReviewQueueByDeck(deckId, r, us) ==
    /\ Idle
    /\ resp' = [op |-> "getReviewQueueByDeck", deckId |-> deckId,
                at |-> Snapshot(Db, r),
                cards |-> getReviewQueueByDeck(Db, deckId, r, us)]
    /\ clock' = Last(r)
    /\ UNCHANGED <<page, tasks, sessions, cards, notes, decks, col>>

GetUrgentCount(r) ==
    /\ Idle
    /\ resp' = [op |-> "getUrgentCount", at |-> Snapshot(Db, r),
                count |-> getUrgentCount(Db, r)]
    /\ clock' = Last(r)
    /\ UNCHANGED <<page, tasks, sessions, cards, notes, decks, col>>

GetDecksWithDueCounts(r) ==
    /\ Idle
    /\ resp' = [op |-> "getDecksWithDueCounts", at |-> Snapshot(Db, r),
                decks |-> getDecksWithDueCounts(Db, r)]
    /\ clock' = Last(r)
    /\ UNCHANGED <<page, tasks, sessions, cards, notes, decks, col>>

\* updateCardSchedule returns nothing and has no throw statement: every call
\* ends with the result undefined.  The call is recorded with its arguments
\* and the values of its locals now and todayDayNum
UpdateCardSchedule(cardId, action, r) ==
    /\ Idle
    /\ ReviewsDone < MaxReviews
    /\ cards' = updateCardSchedule(Db, cardId, action, r)
    /\ resp' = [op |-> "updateCardSchedule", cardId |-> cardId, action |-> action,
                now |-> r[1], todayDayNum |-> getTodayDayNumber(Db, Tail(r)),
                result |-> "undefined"]
    /\ clock' = Last(r)
    /\ UNCHANGED <<page, tasks, sessions, notes, decks, col>>

\* A direct call of shuffleArray on a list of card ids
ShuffleArray(array, us) ==
    /\ Idle
    /\ resp' = [op |-> "shuffleArray", input |-> array, us |-> us,
                out |-> shuffleArray(array, us)]
    /\ UNCHANGED <<page, tasks, sessions, cards, notes, decks, col, clock>>

\* The random streams of the shuffles of a query with read sequence r
UrgentDraws(db, r) ==
    RandomDraws(NumDraws(Len(DueRowsOfDeck(db, URGENT_DECK_ID,
                                           getTodayDayNumber(db, r), Last(r)))))
AllDraws(db, r) ==
    RandomDraws(NumDraws(Len(AllDueRows(db, getTodayDayNumber(db, r), Last(r)))))
DeckDraws(db, deckId, r) ==
    RandomDraws(NumDraws(Len(DueRowsOfDeck(db, deckId,
                                           getTodayDayNumber(db, r), Last(r)))))

-----------------------------------------------------------------------------
(* The /api/review route *)

\* Strings of the query are sequences of character codes: 0..9 the digits,
\* LETTER any other character
LETTER == 10

\* The decimal digits of n >= 0
RECURSIVE Digits(_)
Digits(n) == IF n < 10 THEN <<n>> ELSE Digits(n \div 10) \o <<n % 10>>

\* The value of parseInt on a string without leading digits, which SQLite
\* binds as NULL and no did equals
NaN == 0 - 1

\* parseInt(s, 10): the number written by the leading digits of s
RECURSIVE ParseDigits(_, _, _)
ParseDigits(s, k, acc) ==
    IF k > Len(s) \/ s[k] >= 10 THEN acc
    ELSE ParseDigits(s, k + 1, 10 * acc + s[k])
parseInt(s) == IF s = <<>> \/ s[1] >= 10 THEN NaN ELSE ParseDigits(s, 1, 0)

\* searchParams.get of an absent parameter, and the string 'true'
NULL == <<LETTER, LETTER, LETTER, LETTER>>
STR_true == <<LETTER, LETTER>>

\* A string is truthy unless it is null or empty
Truthy(s) == s # NULL /\ s # <<>>

\* Clock reads of the first and of both db.ts calls of a GET
FirstReads(db, r) == SubSeq(r, 1, NumReads(db))
SecondReads(db, r) == SubSeq(r, NumReads(db) + 1, 2 * NumReads(db))

\* GET: us1 and us2 are the random streams of the shuffles
GET(all, deckId, listDecks, r, us1, us2) ==
    LET includeAll == (all = STR_true)
        r1 == FirstReads(Db, r)
        r2 == SecondReads(Db, r)
    IN  /\ Idle
        /\ resp' =
              IF listDecks = STR_true
              THEN [op |-> "GET", branch |-> "listDecks", status |-> 200,
                    decks |-> getDecksWithDueCounts(Db, r1),
                    urgentDeckId |-> URGENT_DECK_ID,
                    at |-> Snapshot(Db, r1)]
              ELSE IF Truthy(deckId)
              THEN [op |-> "GET", branch |-> "deckId", status |-> 200,
                    deckId |-> parseInt(deckId),
                    cards |-> getReviewQueueByDeck(Db, parseInt(deckId), r1, us1),
                    urgentCount |-> getUrgentCount(Db, r2),
                    isBlocking |-> FALSE,
                    urgentDeckId |-> URGENT_DECK_ID,
                    at |-> Snapshot(Db, r1), countAt |-> Snapshot(Db, r2)]
              ELSE [op |-> "GET", branch |-> "default", status |-> 200,
                    all |-> includeAll,
                    cards |-> getReviewQueue(Db, ~includeAll, r1, us1, us2),
                    urgentCount |-> getUrgentCount(Db, r2),
                    isBlocking |-> (getUrgentCount(Db, r2) > 0),
                    urgentDeckId |-> URGENT_DECK_ID,
                    at |-> Snapshot(Db, r1), countAt |-> Snapshot(Db, r2)]
        /\ clock' = (IF listDecks = STR_true THEN Last(r1) ELSE Last(r))
        /\ UNCHANGED <<page, tasks, sessions, cards, notes, decks, col>>

\* POST: cardId 0 and action "" stand for the falsy values of the body
\* (absent, null, 0, ""); r holds the clock reads of the three db.ts calls,
\* us1 and us2 are the random streams of the shuffles of getReviewQueue
POST(cardId, action, r) ==
    IF cardId = 0 \/ action = ""
    THEN /\ Idle
         /\ resp' = [op |-> "POST", status |-> 400,
                     error |-> "Missing cardId or action",
                     cardId |-> cardId, action |-> action]
         /\ UNCHANGED <<page, tasks, sessions, cards, notes, decks, col, clock>>
    ELSE IF action \notin {"repeat", "soon", "later", "complete"}
    THEN /\ Idle
         /\ resp' = [op |-> "POST", status |-> 400, error |-> "Invalid action",
                     cardId |-> cardId, action |-> action]
         /\ UNCHANGED <<page, tasks, sessions, cards, notes, decks, col, clock>>
    ELSE LET n == NumReads(Db)
             r0 == SubSeq(r, 1, n)
             r1 == SubSeq(r, n + 1, 2 * n)
             r2 == SubSeq(r, 2 * n + 1, 3 * n)
             db1 == [Db EXCEPT !.cards = updateCardSchedule(Db, cardId, action, r0)]
         IN  /\ Idle
             /\ ReviewsDone < MaxReviews
             /\ cards' = db1.cards
             /\ \E us1 \in UrgentDraws(db1, r1), us2 \in AllDraws(db1, r1) :
                   resp' = [op |-> "POST", status |-> 200, success |-> TRUE,
                            cardId |-> cardId, action |-> action,
                            remainingCards |->
                                Len(getReviewQueue(db1, FALSE, r1, us1, us2)),
                            urgentCount |-> getUrgentCount(db1, r2),
                            isBlocking |-> (getUrgentCount(db1, r2) > 0),
                            at |-> Snapshot(db1, r1), countAt |-> Snapshot(db1, r2)]
             /\ clock' = Last(r)
             /\ UNCHANGED <<page, tasks, sessions, notes, decks, col>>

-----------------------------------------------------------------------------
(* Specifications *)

DeckIdArgs == {URGENT_DECK_ID, OtherDeckId, UnknownDeckId}
CardIdArgs == CardIds \cup {UnknownCardId}
ActionArgs == ReviewAction \cup {"Complete"}

\* Lists of at most three card ids, repetitions allowed
ArrayArgs == UNION {[1..n -> CardIds] : n \in 0..3}

AllParams == {NULL, STR_true}
ListDecksParams == {NULL, STR_true}
DeckIdParams == {NULL, <<LETTER>>, Digits(URGENT_DECK_ID), Digits(OtherDeckId)}
BodyCardIds == CardIdArgs \cup {0}
BodyActions == ActionArgs \cup {""}

\* The random streams of the first and second shuffle of a GET
GetDraws1(deckId, listDecks, r) ==
    IF listDecks = STR_true THEN RandomDraws(0)
    ELSE IF Truthy(deckId) THEN DeckDraws(Db, parseInt(deckId), FirstReads(Db, r))
    ELSE UrgentDraws(Db, FirstReads(Db, r))
GetDraws2(deckId, listDecks, r) ==
    IF listDecks = STR_true \/ Truthy(deckId) THEN RandomDraws(0)
    ELSE AllDraws(Db, FirstReads(Db, r))

NextQueries ==
    \/ \E inc \in BOOLEAN, r \in Reads(NumReads(Db)) :
          \E us1 \in UrgentDraws(Db, r), us2 \in AllDraws(Db, r) :
             GetReviewQueue(inc, r, us1, us2)
    \/ \E d \in DeckIdArgs, r \in Reads(NumReads(Db)) :
          \E us \in DeckDraws(Db, d, r) : GetReviewQueueByDeck(d, r, us)
    \/ \E r \in Reads(NumReads(Db)) : GetUrgentCount(r)
    \/ \E r \in Reads(NumReads(Db)) : GetDecksWithDueCounts(r)
    \/ Return

Next ==
    \/ NextQueries
    \/ \E id \in CardIdArgs, a \in ActionArgs, r \in Reads(NumReads(Db)) :
          UpdateCardSchedule(id, a, r)

NextHttp ==
    \/ \E all \in AllParams, deckId \in DeckIdParams, listDecks \in ListDecksParams,
          r \in Reads(2 * NumReads(Db)) :
          \E us1 \in GetDraws1(deckId, listDecks, r),
             us2 \in GetDraws2(deckId, listDecks, r) :
             GET(all, deckId, listDecks, r, us1, us2)
    \/ \E cardId \in BodyCardIds, action \in BodyActions,
          r \in Reads(3 * NumReads(Db)) :
          POST(cardId, action, r)
    \/ Return

NextGet ==
    \/ \E all \in AllParams, deckId \in DeckIdParams, listDecks \in ListDecksParams,
          r \in Reads(2 * NumReads(Db)) :
          \E us1 \in GetDraws1(deckId, listDecks, r),
             us2 \in GetDraws2(deckId, listDecks, r) :
             GET(all, deckId, listDecks, r, us1, us2)
    \/ Return

NextShuffle ==
    \/ \E array \in ArrayArgs : \E us \in RandomDraws(NumDraws(Len(array))) :
          ShuffleArray(array, us)
    \/ \E inc \in BOOLEAN, r \in Reads(NumReads(Db)) :
          \E us1 \in UrgentDraws(Db, r), us2 \in AllDraws(Db, r) :
             GetReviewQueue(inc, r, us1, us2)
    \/ \E d \in DeckIdArgs, r \in Reads(NumReads(Db)) :
          \E us \in DeckDraws(Db, d, r) : GetReviewQueueByDeck(d, r, us)
    \/ Return

\* The engine: the functions of db.ts called in any order
Spec == Init /\ [][Next]_vars

\* The engine over a store of one arbitrary card
SpecDue == InitDue /\ [][Next]_vars

\* The HTTP interface: requests to /api/review in any order
SpecHttp == Init /\ [][NextHttp]_vars

\* The read side of the HTTP interface: GET requests to /api/review
SpecGet == Init /\ [][NextGet]_vars

\* shuffleArray on arbitrary lists and in the queue queries
SpecShuffle == Init /\ [][NextShuffle]_vars

-----------------------------------------------------------------------------
(* Properties.  The eligible sets are stated as the specification of the   *)
(* engine states them (computeEligible), over the store of the current     *)
(* state: a call that returns a queue leaves the store as it found it, and *)
(* resp.at holds the day number and the timestamp the call compared with.  *)

Range(s) == {s[i] : i \in 1..Len(s)}

\* computeEligible: not suspended, and due by the unit of its queue
Eligible(c, dayNumber, now) ==
    CASE c.queue = 0 -> TRUE
      [] c.queue = 2 -> c.due <= dayNumber
      [] c.queue \in {1, 3} -> c.due <= now
      [] OTHER -> FALSE

\* Eligible cards of the urgent deck, of the other decks, of all decks, at
\* the snapshot at
UrgentEligible(at) ==
    {id \in DOMAIN cards : /\ cards[id].did = URGENT_DECK_ID
                           /\ Eligible(cards[id], at.todayDayNum, at.nowTimestamp)}
OtherEligible(at) ==
    {id \in DOMAIN cards : /\ cards[id].did # URGENT_DECK_ID
                           /\ Eligible(cards[id], at.todayDayNum, at.nowTimestamp)}
AllEligible(at) == UrgentEligible(at) \cup OtherEligible(at)

\* The last call was getReviewQueue(includeNonUrgent)
ReturnedQueue(includeNonUrgent) ==
    resp.op = "getReviewQueue" /\ resp.includeNonUrgent = includeNonUrgent

\* C1: blocking dominance.  When the urgent deck and the other decks both have
\* eligible cards, getReviewQueue(false) returns exactly the eligible cards of
\* the urgent deck and no card of another deck.
C1_BlockingDominance ==
    (/\ ReturnedQueue(FALSE)
     /\ UrgentEligible(resp.at) # {}
     /\ OtherEligible(resp.at) # {})
    => /\ Range(resp.cards) = UrgentEligible(resp.at)
       /\ \A id \in Range(resp.cards) : cards[id].did = URGENT_DECK_ID

\* Two eligible urgent cards and an eligible card of another deck, and
\* getReviewQueue(false) has returned
C1_Witness ==
    /\ ReturnedQueue(FALSE)
    /\ Cardinality(UrgentEligible(resp.at)) = 2
    /\ OtherEligible(resp.at) # {}
    /\ Len(resp.cards) = 2

\* C2: the gate is on by default at the HTTP interface.  A GET without deckId,
\* listDecks and all=true that is served while the urgent deck has an eligible
\* card returns only cards of the urgent deck.
C2_GateOnByDefault ==
    (/\ resp.op = "GET"
     /\ resp.branch = "default"
     /\ ~resp.all
     /\ UrgentEligible(resp.at) # {})
    => \A id \in Range(resp.cards) : cards[id].did = URGENT_DECK_ID

\* C3: blocking release.  When the urgent deck has no eligible card,
\* getReviewQueue(false) returns exactly the eligible cards of all decks.
C3_BlockingRelease ==
    (ReturnedQueue(FALSE) /\ UrgentEligible(resp.at) = {})
    => Range(resp.cards) = AllEligible(resp.at)

\* A review action has taken the last eligible card out of the urgent deck,
\* and getReviewQueue(false) has returned the cards of the other decks
C3_Witness ==
    /\ ReturnedQueue(FALSE)
    /\ UrgentEligible(resp.at) = {}
    /\ \E id \in DOMAIN cards : cards[id].did = URGENT_DECK_ID /\ cards[id].mod > Crt
    /\ resp.cards # <<>>

\* C4: include-all override.  getReviewQueue(true) returns the eligible cards
\* of all decks whether or not the urgent deck has eligible cards, those of
\* the urgent deck among them.
C4_IncludeAll ==
    ReturnedQueue(TRUE)
    => /\ Range(resp.cards) = AllEligible(resp.at)
       /\ UrgentEligible(resp.at) \subseteq Range(resp.cards)

\* getReviewQueue(true) has returned while both the urgent deck and another
\* deck have eligible cards
C4_Witness ==
    /\ ReturnedQueue(TRUE)
    /\ UrgentEligible(resp.at) # {}
    /\ OtherEligible(resp.at) # {}
    /\ UrgentEligible(resp.at) \subseteq Range(resp.cards)

\* The last call returned a queue
ReturnedCards == resp.op \in {"getReviewQueue", "getReviewQueueByDeck"}

\* C5: eligibility predicate.  The queue queries select a card iff it is
\* not suspended and is a review card with due <= dayNumber, a learning or
\* relearning card with due <= now, or a new card; due = dayNumber and
\* due = now are selected, due = dayNumber + 1 and due = now + 1 are not.
C5_EligibilityPredicate ==
    \A id \in DOMAIN cards :
       LET c == cards[id]
           selected == id \in Range(resp.cards)
       IN  /\ resp.op = "getReviewQueue"
              => (selected <=> Eligible(c, resp.at.todayDayNum, resp.at.nowTimestamp))
           /\ resp.op = "getReviewQueueByDeck"
              => (selected <=> /\ c.did = resp.deckId
                               /\ Eligible(c, resp.at.todayDayNum, resp.at.nowTimestamp))
           /\ (resp.op = "getReviewQueue" /\ c.queue = 2)
              => /\ c.due = resp.at.todayDayNum => selected
                 /\ c.due = resp.at.todayDayNum + 1 => ~selected
           /\ (resp.op = "getReviewQueue" /\ c.queue \in {1, 3})
              => /\ c.due = resp.at.nowTimestamp => selected
                 /\ c.due = resp.at.nowTimestamp + 1 => ~selected

\* A review card due on the very day of the call has been selected
C5_Witness ==
    /\ resp.op = "getReviewQueue"
    /\ cards[1].queue = 2
    /\ cards[1].due = resp.at.todayDayNum
    /\ resp.cards = <<1>>

\* C6: a new card is eligible for every due value, day number and time: every
\* queue query of its deck selects it and every count includes it.
C6_NewAlwaysEligible ==
    \A id \in DOMAIN cards :
       cards[id].queue = 0
       => /\ resp.op = "getReviewQueue" => id \in Range(resp.cards)
          /\ (resp.op = "getReviewQueueByDeck" /\ resp.deckId = cards[id].did)
             => id \in Range(resp.cards)
          /\ (resp.op = "getUrgentCount" /\ cards[id].did = URGENT_DECK_ID)
             => resp.count >= 1
          /\ resp.op = "getDecksWithDueCounts"
             => \E k \in 1..Len(resp.decks) :
                   resp.decks[k].id = cards[id].did /\ resp.decks[k].dueCount >= 1

\* A new card whose due value lies beyond every day number and timestamp has
\* been selected
C6_Witness ==
    /\ resp.op = "getReviewQueue"
    /\ cards[1].queue = 0
    /\ cards[1].due > resp.at.nowTimestamp
    /\ resp.cards = <<1>>

Suspended == {id \in DOMAIN cards : cards[id].queue = 0 - 1}
CardsOfDeck(d) == {id \in DOMAIN cards : cards[id].did = d}

\* C7: a suspended card is in no returned queue and in no count.
C7_SuspendedNeverEligible ==
    /\ ReturnedCards => Range(resp.cards) \cap Suspended = {}
    /\ resp.op = "getUrgentCount"
       => resp.count <= Cardinality(CardsOfDeck(URGENT_DECK_ID) \ Suspended)
    /\ resp.op = "getDecksWithDueCounts"
       => \A k \in 1..Len(resp.decks) :
             resp.decks[k].dueCount
                <= Cardinality(CardsOfDeck(resp.decks[k].id) \ Suspended)

\* A completed card of the urgent deck whose type and due are those of a
\* review card that is due, and a count that has left it out
C7_Witness ==
    /\ resp.op = "getUrgentCount"
    /\ cards[1].queue = 0 - 1
    /\ cards[1].reps = 4
    /\ cards[1].did = URGENT_DECK_ID
    /\ cards[1].type = 2
    /\ cards[1].due <= resp.at.todayDayNum
    /\ resp.count = 0

Occurrences(s, x) == Cardinality({i \in 1..Len(s) : s[i] = x})

\* The set of cards a queue query has to return
Expected ==
    IF resp.op = "getReviewQueueByDeck"
    THEN {id \in AllEligible(resp.at) : cards[id].did = resp.deckId}
    ELSE IF resp.includeNonUrgent \/ UrgentEligible(resp.at) = {}
    THEN AllEligible(resp.at)
    ELSE UrgentEligible(resp.at)

\* C8: shuffleArray returns a list of the length of its input that holds each
\* element as often as the input does, and leaves the input as it was; so a
\* queue returned by getReviewQueue or getReviewQueueByDeck holds each card
\* it has to return once and no other card.
C8_ShuffleIsPermutation ==
    /\ resp.op = "shuffleArray"
       => /\ Len(resp.out.result) = Len(resp.input)
          /\ \A x \in CardIds :
                Occurrences(resp.out.result, x) = Occurrences(resp.input, x)
          /\ resp.out.array = resp.input
    /\ ReturnedCards
       => \A id \in DOMAIN cards :
             Occurrences(resp.cards, id) = (IF id \in Expected THEN 1 ELSE 0)

\* Three distinct cards have been shuffled into another order
C8_Witness ==
    /\ resp.op = "shuffleArray"
    /\ resp.input = <<1, 2, 3>>
    /\ resp.out.result = <<3, 1, 2>>

\* The step is the call updateCardSchedule(id, action) on an existing card
Reviewed(id, action) ==
    /\ resp'.op = "updateCardSchedule"
    /\ resp'.cardId = id
    /\ resp'.action = action

\* C9: transition table of repeat, soon and later.  With now and D the time
\* and the day number of the call and r the repetitions before it, repeat
\* gives queue 1, type 1, due now, ivl 0, reps r + 1; soon gives queue 2,
\* type 2, due D + 1, ivl 1, reps r + 1; later gives queue 2, type 2,
\* due D + 7, ivl 7, reps r + 1, whatever the card was before.
C9_TransitionTable ==
    [][\A id \in DOMAIN cards :
          LET new == cards'[id]
              D == resp'.todayDayNum
          IN  /\ Reviewed(id, "repeat")
                 => /\ new.queue = 1 /\ new.type = 1 /\ new.due = resp'.now
                    /\ new.ivl = 0 /\ new.reps = cards[id].reps + 1
              /\ Reviewed(id, "soon")
                 => /\ new.queue = 2 /\ new.type = 2 /\ new.due = D + 1
                    /\ new.ivl = 1 /\ new.reps = cards[id].reps + 1
              /\ Reviewed(id, "later")
                 => /\ new.queue = 2 /\ new.type = 2 /\ new.due = D + 7
                    /\ new.ivl = 7 /\ new.reps = cards[id].reps + 1]_vars

\* A card with 3 repetitions has been acted on with later on day InitDay
C9_Witness ==
    /\ resp.op = "updateCardSchedule"
    /\ resp.cardId = 1
    /\ resp.action = "later"
    /\ resp.todayDayNum = InitDay
    /\ cards[1].queue = 2
    /\ cards[1].type = 2
    /\ cards[1].due = InitDay + 7
    /\ cards[1].ivl = 7
    /\ cards[1].reps = 4

\* C10: complete sets queue = -1 and reps = reps + 1 and leaves type, due
\* and ivl as they were.
C10_CompleteFrame ==
    [][\A id \in DOMAIN cards :
          Reviewed(id, "complete")
          => /\ cards'[id].queue = 0 - 1
             /\ cards'[id].reps = cards[id].reps + 1
             /\ cards'[id].type = cards[id].type
             /\ cards'[id].due = cards[id].due
             /\ cards'[id].ivl = cards[id].ivl]_vars

\* A learning card of interval 3 has been completed and keeps its type, due
\* and interval
C10_Witness ==
    /\ resp.op = "updateCardSchedule"
    /\ resp.action = "complete"
    /\ resp.cardId = 1
    /\ cards[1].queue = 0 - 1
    /\ cards[1].type = 1
    /\ cards[1].due = InitClock + 1
    /\ cards[1].ivl = 3
    /\ cards[1].reps = 4

\* C11: complete is sticky.  No step of the engine takes a card out of the
\* suspended queue, so a completed card stays out of every later queue
\* whatever calls follow, review actions on the card itself included.
C11_CompleteIsSticky ==
    [][\A id \in DOMAIN cards :
          cards[id].queue = 0 - 1 => cards'[id].queue = 0 - 1]_vars

\* C13: updateCardSchedule called with an action that is none of 'repeat',
\* 'soon', 'later', 'complete' signals the failure to its caller; it does not
\* end like a call that succeeded.
C13_InvalidActionSignalled ==
    (resp.op = "updateCardSchedule" /\ resp.action \notin ReviewAction)
    => resp.result # "undefined"

\* C14: a review action posted for a cardId that no card has is not answered
\* as a success.
C14_UnknownCardNotFound ==
    (resp.op = "POST" /\ resp.cardId \notin DOMAIN cards) => resp.status # 200

\* The day number of the second t of a collection created at crt
DayOf(t, crt) == (t - crt) \div SecondsPerDay

\* C15: single time snapshot.  In a call of getReviewQueue,
\* getReviewQueueByDeck or updateCardSchedule the day number that the call
\* uses is the day number of the very timestamp now that the call uses.
C15_SingleTimeSnapshot ==
    /\ ReturnedCards
       => resp.at.todayDayNum = DayOf(resp.at.nowTimestamp, col[1].crt)
    /\ resp.op = "updateCardSchedule"
       => resp.todayDayNum = DayOf(resp.now, col[1].crt)

\* The card is in every queue computation of the last call: returned by
\* getReviewQueue unless the urgent deck gates it out, returned by
\* getReviewQueueByDeck of its deck, and counted
InEveryQueue(id) ==
    /\ (/\ resp.op = "getReviewQueue"
        /\ \/ resp.includeNonUrgent
           \/ cards[id].did = URGENT_DECK_ID
           \/ UrgentEligible(resp.at) = {})
       => id \in Range(resp.cards)
    /\ (resp.op = "getReviewQueueByDeck" /\ resp.deckId = cards[id].did)
       => id \in Range(resp.cards)
    /\ (resp.op = "getUrgentCount" /\ cards[id].did = URGENT_DECK_ID)
       => resp.count >= 1
    /\ resp.op = "getDecksWithDueCounts"
       => \E k \in 1..Len(resp.decks) :
             resp.decks[k].id = cards[id].did /\ resp.decks[k].dueCount >= 1

\* The card is in no queue computation of the last call
InNoQueue(id) ==
    /\ ReturnedCards => id \notin Range(resp.cards)
    /\ resp.op = "getUrgentCount"
       => resp.count <= Cardinality(CardsOfDeck(URGENT_DECK_ID) \ {id})
    /\ resp.op = "getDecksWithDueCounts"
       => \A k \in 1..Len(resp.decks) :
             resp.decks[k].dueCount
                <= Cardinality(CardsOfDeck(resp.decks[k].id) \ {id})

\* The last call computed queues
Queried ==
    resp.op \in {"getReviewQueue", "getReviewQueueByDeck", "getUrgentCount",
                 "getDecksWithDueCounts"}

\* The last action recorded on the card is repeat: the store starts without
\* learning cards and repeat alone moves a card to the learning queue
Repeated(id) == cards[id].mod > Crt /\ cards[id].queue = 1

\* C12: repeat re-enters the session.  A card whose last action is repeat,
\* made at time T, is in every queue computed at a time T' >= T.
C12_RepeatReenters ==
    \A id \in DOMAIN cards : Repeated(id) => InEveryQueue(id)

\* A queue computed in the very second of the repeat returns the card
C12_Witness ==
    /\ resp.op = "getReviewQueue"
    /\ Repeated(1)
    /\ resp.at.nowTimestamp = cards[1].mod
    /\ 1 \in Range(resp.cards)

\* The last action recorded on the card is soon (ivl = 1) or later (ivl = 7):
\* the store starts without cards of these intervals
Postponed(id) ==
    cards[id].mod > Crt /\ cards[id].queue = 2 /\ cards[id].ivl \in {1, 7}

\* C16: soon means one day, later seven.  A card whose last action is soon
\* (later), made on day number D, is in no queue computed with a day number
\* below D + 1 (D + 7) and in every queue computed with a day number of at
\* least D + 1 (D + 7).  D, which the action has recorded as due - ivl, is a
\* day number between that of the second of the action (mod) and that of
\* the present.
C16_SoonOneDayLaterSeven ==
    \A id \in DOMAIN cards :
       Postponed(id)
       => LET D == cards[id].due - cards[id].ivl
              offset == IF cards[id].ivl = 1 THEN 1 ELSE 7
          IN  /\ DayOf(cards[id].mod, col[1].crt) <= D
              /\ D <= DayOf(clock, col[1].crt)
              /\ Queried
                 => IF resp.at.todayDayNum < D + offset
                    THEN InNoQueue(id)
                    ELSE InEveryQueue(id)

\* A card acted on with later on day InitDay - 1 is returned by a queue
\* computed on day InitDay + 6
C16_Witness ==
    /\ resp.op = "getReviewQueue"
    /\ Postponed(1)
    /\ cards[1].ivl = 7
    /\ cards[1].due = InitDay + 6
    /\ resp.at.todayDayNum = InitDay + 6
    /\ 1 \in Range(resp.cards)

\* C17: the queue of one deck bypasses the gate.  GET /api/review?deckId=d
\* returns exactly the eligible cards of deck d, whether or not the urgent
\* deck has eligible cards, and reports isBlocking = false.
C17_PerDeckBypassesGate ==
    (resp.op = "GET" /\ resp.branch = "deckId")
    => /\ Range(resp.cards)
             = {id \in AllEligible(resp.at) : cards[id].did = resp.deckId}
       /\ resp.isBlocking = FALSE

\* The queue of the other deck has been served while urgent cards are due
C17_Witness ==
    /\ resp.op = "GET"
    /\ resp.branch = "deckId"
    /\ resp.deckId = OtherDeckId
    /\ UrgentEligible(resp.at) # {}
    /\ resp.urgentCount > 0
    /\ resp.cards # <<>>
    /\ resp.isBlocking = FALSE

C19_Counters ==
    [][\A id \in DOMAIN cards :
          /\ cards'[id].lapses = cards[id].lapses
          /\ cards'[id].reps
                = cards[id].reps
                  + (IF /\ resp'.op = "updateCardSchedule"
                        /\ resp'.cardId = id
                        /\ resp'.action \in ReviewAction
                     THEN 1 ELSE 0)]_vars

\* The card with 3 repetitions and 1 lapse has been repeated
C19_Witness ==
    /\ resp.op = "updateCardSchedule"
    /\ resp.cardId = 2
    /\ resp.action = "repeat"
    /\ cards[2].reps = 4
    /\ cards[2].lapses = 1

\* The day number that the call ending in the step computed, if it did
ComputesDay == resp'.op \in {"getReviewQueue", "getReviewQueueByDeck",
                             "getUrgentCount", "getDecksWithDueCounts",
                             "updateCardSchedule"}
ComputedDay ==
    IF resp'.op = "updateCardSchedule" THEN resp'.todayDayNum
    ELSE resp'.at.todayDayNum

C22_ModIsNow ==
    [][\A id \in DOMAIN cards :
          /\ cards'[id].mod >= cards[id].mod
          /\ (\E a \in ReviewAction : Reviewed(id, a))
             => cards'[id].mod = resp'.now]_vars

\* Card 1 carries the time of the "later" that has just been recorded
C22_Witness ==
    /\ resp.op = "updateCardSchedule"
    /\ resp.cardId = 1
    /\ resp.action = "later"
    /\ cards[1].ivl = 7
    /\ cards[1].mod = resp.now
    /\ resp.now > InitClock

\* C23: frame of the engine.  No step adds or removes a card or changes the
\* deck id or the note id of a card, and a step that is one of the four queue
\* computations leaves the tables cards, notes, decks and col as they were.
C23_Frame ==
    [][/\ DOMAIN cards' = DOMAIN cards
       /\ \A id \in DOMAIN cards :
             /\ cards'[id].did = cards[id].did
             /\ cards'[id].nid = cards[id].nid
       /\ resp'.op \in {"getReviewQueue", "getReviewQueueByDeck",
                        "getUrgentCount", "getDecksWithDueCounts"}
          => UNCHANGED <<cards, notes, decks, col>>]_vars

\* Card 2, of the other deck, has been completed and is still a card of that
\* deck and of its note
C23_Witness ==
    /\ resp.op = "updateCardSchedule"
    /\ resp.cardId = 2
    /\ resp.action = "complete"
    /\ cards[2].queue = 0 - 1
    /\ cards[2].did = OtherDeckId
    /\ cards[2].nid = 101
    /\ DOMAIN cards = CardIds

\* The card has been the subject of a review action: the store starts with
\* every mod at Crt and the actions alone write mod
ActedOn(id) == cards[id].mod > Crt

\* C27: queue, type and due unit after review actions.  A card that has been
\* acted on has queue -1, 1 or 2.  With queue 1 it has type 1, ivl 0 and a
\* due in Unix seconds (the second of the action, between the creation of
\* the collection and the present); with queue 2 it has type 2, ivl 1 or 7
\* and a due that is a day index (the day number of the action plus ivl).
C27_QueueTypeDueUnit ==
    \A id \in DOMAIN cards :
       ActedOn(id)
       => /\ cards[id].queue \in {0 - 1, 1, 2}
          /\ cards[id].queue = 1
             => /\ cards[id].type = 1
                /\ cards[id].ivl = 0
                /\ cards[id].due = cards[id].mod
                /\ cards[id].due >= Crt
                /\ cards[id].due <= clock
          /\ cards[id].queue = 2
             => /\ cards[id].type = 2
                /\ cards[id].ivl \in {1, 7}
                /\ cards[id].due - cards[id].ivl >= DayOf(cards[id].mod, col[1].crt)
                /\ cards[id].due - cards[id].ivl <= DayOf(clock, col[1].crt)

\* The new card 3 has become a review card due on the day after the action
C27_Witness ==
    /\ ActedOn(3)
    /\ cards[3].queue = 2
    /\ cards[3].type = 2
    /\ cards[3].ivl = 1
    /\ cards[3].due = DayOf(cards[3].mod, col[1].crt) + 1

\* The list has no repeated element
Distinct(s) == \A i, j \in 1..Len(s) : i # j => s[i] # s[j]

\* The draws j of shuffleArray on a list of n elements with random stream us,
\* in the order of the loop: the k-th is the draw for index i = n - k
JSeq(n, us) == [k \in 1..NumDraws(n) |-> RandomIndex(us[k], n - k)]

RECURSIVE Factorial(_)
Factorial(n) == IF n <= 1 THEN 1 ELSE n * Factorial(n - 1)

\* C24: unbiased Fisher-Yates.  For a list of n distinct cards the draw j at
\* step i, over the values of Math.random(), ranges over exactly 0..i; the
\* sequences of draws produce n! different orders, and two runs that return
\* the same order made the same sequence of draws.
C24_FisherYates ==
    (resp.op = "shuffleArray" /\ Distinct(resp.input))
    => LET n == Len(resp.input)
           streams == RandomDraws(NumDraws(n))
       IN  /\ \A i \in 1..(n - 1) :
                 {RandomIndex(u, i) : u \in 0..(RandRes - 1)} = 0..i
           /\ resp.out.result = ShuffleLoop(resp.input, n - 1, resp.us)
           /\ Cardinality({ShuffleLoop(resp.input, n - 1, us) : us \in streams})
                 = Factorial(n)
           /\ \A us1, us2 \in streams :
                 ShuffleLoop(resp.input, n - 1, us1)
                    = ShuffleLoop(resp.input, n - 1, us2)
                 => JSeq(n, us1) = JSeq(n, us2)

\* The draws 0 (for index 2) and 1 (for index 1) reverse a list of three cards
C24_Witness ==
    /\ resp.op = "shuffleArray"
    /\ resp.input = <<1, 2, 3>>
    /\ JSeq(3, resp.us) = <<0, 1>>
    /\ resp.out.result = <<3, 2, 1>>

\* C26: urgentCount, isBlocking and the queue agree.  In a response of the
\* default GET or of an accepted POST, urgentCount is the number of eligible
\* cards of the urgent deck at the snapshot of the queue computation and
\* isBlocking says whether there is one; a default GET that reports
\* isBlocking = true without all=true returns no card of another deck, and
\* one that reports isBlocking = false returns the eligible cards of all decks.
C26_UrgentCountAgrees ==
    /\ (resp.op = "GET" /\ resp.branch = "default")
       => /\ resp.urgentCount = Cardinality(UrgentEligible(resp.at))
          /\ resp.isBlocking <=> UrgentEligible(resp.at) # {}
          /\ (resp.isBlocking /\ ~resp.all)
             => \A id \in Range(resp.cards) : cards[id].did = URGENT_DECK_ID
          /\ ~resp.isBlocking => Range(resp.cards) = AllEligible(resp.at)
    /\ (resp.op = "POST" /\ resp.status = 200)
       => /\ resp.urgentCount = Cardinality(UrgentEligible(resp.at))
          /\ resp.isBlocking <=> UrgentEligible(resp.at) # {}

-----------------------------------------------------------------------------
(* Card maintenance of db.ts (the /api/cards route) *)

\* moveCardToDeck(cardId, deckId): UPDATE cards SET did = ?, mod = ? WHERE
\* id = ?.  The deck id is written as given; no statement looks it up in decks
moveCardToDeck(db, cardId, deckId, r) ==
    LET now == r[1]
        cs == db.cards
    IN  IF cardId \notin DOMAIN cs THEN cs
        ELSE [cs EXCEPT ![cardId] = [@ EXCEPT !.did = deckId, !.mod = now]]

MoveCardToDeck(cardId, deckId, r) ==
    /\ Idle
    /\ cards' = moveCardToDeck(Db, cardId, deckId, r)
    /\ resp' = [op |-> "moveCardToDeck", cardId |-> cardId, deckId |-> deckId,
                now |-> r[1]]
    /\ clock' = Last(r)
    /\ UNCHANGED <<page, tasks, sessions, notes, decks, col>>

\* A collection whose cards are all in the other deck, with or without a deck
\* row for the urgent deck id
InitNoUrgentCards ==
    /\ \E due \in {InitDay - 1, InitDay} :
          cards = (1 :> Row(101, OtherDeckId, 2, 2, due, 3, 0, 0))
                  @@ (2 :> Row(101, OtherDeckId, 0, 0, 2000000000, 0, 3, 1))
                  @@ (3 :> Row(102, OtherDeckId, 0, 0, 0, 0, 0, 0))
    /\ notes = {101, 102}
    /\ decks \in {{OtherDeckId}, {URGENT_DECK_ID, OtherDeckId}}
    /\ col = <<[crt |-> Crt]>>
    /\ clock = InitClock
    /\ resp = NoResp
    /\ InitClient

NextDecks ==
    \/ NextQueries
    \/ \E id \in CardIdArgs, d \in DeckIdArgs, r \in Reads(1) :
          MoveCardToDeck(id, d, r)

\* The queue computations on a collection that starts without urgent cards,
\* with cards moved between decks
SpecDecks == InitNoUrgentCards /\ [][NextDecks]_vars

\* C21: missing blocking category.  While the decks table has no row with the
\* urgent deck id, or no card has that deck id, getReviewQueue(false)
\* returns the eligible cards of all the decks there are and getUrgentCount
\* returns 0.
C21_MissingUrgentDeck ==
    (URGENT_DECK_ID \notin decks \/ CardsOfDeck(URGENT_DECK_ID) = {})
    => /\ ReturnedQueue(FALSE)
          => Range(resp.cards)
                = {id \in AllEligible(resp.at) : cards[id].did \in decks}
       /\ resp.op = "getUrgentCount" => resp.count = 0

\* The rows of cs other than the row of cardId
WithoutCard(cs, cardId) == [id \in DOMAIN cs \ {cardId} |-> cs[id]]

\* Variant: the note is deleted with the card whatever else refers to it
deleteCard_AlwaysDeletesNote(db, cardId) ==
    IF cardId \notin DOMAIN db.cards
    THEN [cards |-> db.cards, notes |-> db.notes]
    ELSE [cards |-> WithoutCard(db.cards, cardId),
          notes |-> db.notes \ {db.cards[cardId].nid}]

\* deleteCard(cardId): the tables cards and notes after the call.  SELECT nid
\* of the card; if there is one, DELETE the card, COUNT the cards left with
\* that nid and DELETE the note when the count is 0
deleteCard(db, cardId) ==
    IF cardId \notin DOMAIN db.cards
    THEN [cards |-> db.cards, notes |-> db.notes]
    ELSE LET nid == db.cards[cardId].nid
             cs == WithoutCard(db.cards, cardId)
             otherCards == Cardinality({id \in DOMAIN cs : cs[id].nid = nid})
         IN  [cards |-> cs,
              notes |-> IF otherCards = 0 THEN db.notes \ {nid} ELSE db.notes]

DeleteCard(cardId) ==
    /\ Idle
    /\ cards' = deleteCard(Db, cardId).cards
    /\ notes' = deleteCard(Db, cardId).notes
    /\ resp' = [op |-> "deleteCard", cardId |-> cardId]
    /\ UNCHANGED <<page, tasks, sessions, decks, col, clock>>

\* DELETE /api/cards?id=...: 400 without an id, else deleteCard(parseInt(id))
DELETE(id) ==
    IF ~Truthy(id)
    THEN /\ Idle
         /\ resp' = [op |-> "DELETE", status |-> 400, error |-> "Card ID required",
                     id |-> id]
         /\ UNCHANGED <<page, tasks, sessions, cards, notes, decks, col, clock>>
    ELSE /\ Idle
         /\ cards' = deleteCard(Db, parseInt(id)).cards
         /\ notes' = deleteCard(Db, parseInt(id)).notes
         /\ resp' = [op |-> "DELETE", status |-> 200, success |-> TRUE,
                     id |-> id, cardId |-> parseInt(id)]
         /\ UNCHANGED <<page, tasks, sessions, decks, col, clock>>

\* The id query parameter: absent, empty, not a number, a card id, an unknown id
IdParams ==
    {NULL, <<>>, <<LETTER>>, Digits(UnknownCardId)} \cup {Digits(id) : id \in CardIds}

NextCards ==
    \/ \E id \in CardIdArgs : DeleteCard(id)
    \/ \E id \in IdParams : DELETE(id)
    \/ \E r \in Reads(NumReads(Db)) : GetDecksWithDueCounts(r)
    \/ Return

\* Deletion of cards, by calls of deleteCard and by DELETE requests
SpecCards == Init /\ [][NextCards]_vars

\* Every card has its note and every note has a card
Consistent(cs, ns) ==
    /\ \A id \in DOMAIN cs : cs[id].nid \in ns
    /\ \A n \in ns : \E id \in DOMAIN cs : cs[id].nid = n

\* The step is deleteCard(c), called directly or by an accepted DELETE
Deletes(c) ==
    \/ resp'.op = "deleteCard" /\ resp'.cardId = c
    \/ resp'.op = "DELETE" /\ resp'.status = 200 /\ resp'.cardId = c

\* C29: deleteCard keeps notes and cards consistent.  After deleteCard(c)
\* there is no card c; the note of c is deleted if and only if no other card
\* has that note; every other card and note is as it was, and so are cards
\* and notes altogether when there was no card c.  A store in which every
\* card has its note and every note a card stays such a store.
C29_DeleteCard ==
    [][\A c \in CardIdArgs \cup {NaN} :
          Deletes(c)
          => /\ DOMAIN cards' = DOMAIN cards \ {c}
             /\ \A id \in DOMAIN cards' : cards'[id] = cards[id]
             /\ IF c \in DOMAIN cards
                THEN notes' = IF \E id \in DOMAIN cards \ {c} :
                                    cards[id].nid = cards[c].nid
                              THEN notes
                              ELSE notes \ {cards[c].nid}
                ELSE notes' = notes
             /\ Consistent(cards, notes) => Consistent(cards', notes')
             /\ UNCHANGED <<decks, col>>]_vars

\* Card 1 has been deleted and its note 101 is still there for card 2; the
\* deletion of card 3 has taken note 102 with it
C29_Witness ==
    /\ resp.op = "deleteCard"
    /\ resp.cardId = 3
    /\ DOMAIN cards = {2}
    /\ notes = {101}

-----------------------------------------------------------------------------
(* The agent chat route: POST and GET of /api/agent/chat.  A message is    *)
(* modelled by its role; the text of a message decides nothing in the      *)
(* handler beyond being empty or not.  The rows that saveInsight inserts   *)
(* into learner_insights are not part of the session and are left out.     *)

\* agent.ts: deckHasAgent(deckId) is deckId === CODING_DECK_ID; the id
\* 1743361245682 is written with its leading digits
CODING_DECK_ID == 17433

\* if (session.messages.length > 20) session.messages = session.messages.slice(-20)
MaxHistory == 20

\* Requests that may be in flight at once, and places where the explored
\* sessions may hold two user messages in a row
MaxInFlight == 2
MaxUserRuns == 1

\* s.slice(-n) of a list longer than n
SliceLast(s, n) == SubSeq(s, Len(s) - n + 1, Len(s))

\* The sequence without its k-th element
RemoveAt(s, k) == SubSeq(s, 1, k - 1) \o SubSeq(s, k + 1, Len(s))

\* The messages of the session, none if sessions has no such key
MessagesOf(ss, sessionId) ==
    IF sessionId \in DOMAIN ss THEN ss[sessionId].messages ELSE <<>>

\* sessions after session.messages of the session has been assigned ms; the
\* session is created with the deck id of the request if it is not there
WithMessages(ss, sessionId, deckId, ms) ==
    [sid \in DOMAIN ss \cup {sessionId} |->
        IF sid = sessionId
        THEN [messages |-> ms,
              deckId |-> IF sid \in DOMAIN ss THEN ss[sid].deckId ELSE deckId]
        ELSE ss[sid]]

\* Number of user messages of the list that follow a user message
UserRuns(ms) ==
    Cardinality({i \in 2..Len(ms) : ms[i - 1] = "user" /\ ms[i] = "user"})

\* Exploration bound: a request may put a user message after a user message
\* (of a request in flight, or left without answer) MaxUserRuns times
MayPush(ms) ==
    (ms # <<>> /\ ms[Len(ms)] = "user") => UserRuns(ms) < MaxUserRuns

\* POST up to the first await of anthropic.messages.create: the checks of
\* the body, get or create the session, push the user message.  message ""
\* sessionId "" and deckId 0 stand for the falsy values.  The field before
\* of the suspended request records session.messages as the request found it
ChatPOST(message, sessionId, deckId) ==
    IF message = "" \/ sessionId = "" \/ deckId = 0
    THEN /\ Idle
         /\ resp' = [op |-> "chatPOST", status |-> 400,
                     error |-> "Missing required fields: message, sessionId, deckId"]
         /\ UNCHANGED <<page, tasks, sessions, cards, notes, decks, col, clock>>
    ELSE IF deckId # CODING_DECK_ID
    THEN /\ Idle
         /\ resp' = [op |-> "chatPOST", status |-> 400,
                     error |-> "This deck does not have an agent configured"]
         /\ UNCHANGED <<page, tasks, sessions, cards, notes, decks, col, clock>>
    ELSE LET before == MessagesOf(sessions, sessionId)
         IN  /\ Idle
             /\ Len(tasks) < MaxInFlight
             /\ MayPush(before)
             /\ sessions' = WithMessages(sessions, sessionId, deckId,
                                         Append(before, "user"))
             /\ tasks' = Append(tasks, [fn |-> "chatPOST", pc |-> "create",
                                        sessionId |-> sessionId,
                                        before |-> before,
                                        assistantMessage |-> FALSE])
             /\ UNCHANGED <<page, resp, cards, notes, decks, col, clock>>

\* The catch block: the request ends with status 500
ChatFails(k) ==
    /\ tasks' = RemoveAt(tasks, k)
    /\ resp' = [op |-> "chatPOST", status |-> 500,
                error |-> "Failed to process chat message",
                sessionId |-> tasks[k].sessionId]
    /\ UNCHANGED <<page, sessions, cards, notes, decks, col, clock>>

\* Lines 132-147: push the assistant message if it is not empty, keep the
\* last MaxHistory messages, answer 200
ChatAnswers(k, assistantMessage) ==
    LET sid == tasks[k].sessionId
        ms == sessions[sid].messages
        pushed == IF assistantMessage THEN Append(ms, "assistant") ELSE ms
        kept == IF Len(pushed) > MaxHistory THEN SliceLast(pushed, MaxHistory)
                ELSE pushed
    IN  /\ sessions' = WithMessages(sessions, sid, sessions[sid].deckId, kept)
        /\ tasks' = RemoveAt(tasks, k)
        /\ resp' = [op |-> "chatPOST", status |-> 200, sessionId |-> sid,
                    message |-> assistantMessage]
        /\ UNCHANGED <<page, cards, notes, decks, col, clock>>

\* The first anthropic.messages.create settles: it rejects ("error"), or it
\* resolves with or without text and with or without stop_reason tool_use
ChatCreateSettles(k, outcome) ==
    /\ Idle
    /\ k \in 1..Len(tasks)
    /\ tasks[k].fn = "chatPOST"
    /\ tasks[k].pc = "create"
    /\ CASE outcome = "error" -> ChatFails(k)
         [] outcome \in {"text", "empty"} -> ChatAnswers(k, outcome = "text")
         [] outcome \in {"tool_use", "text_tool_use"} ->
               /\ tasks' = [tasks EXCEPT ![k] =
                               [@ EXCEPT !.pc = "continuation",
                                         !.assistantMessage =
                                             (outcome = "text_tool_use")]]
               /\ UNCHANGED <<page, resp, sessions, cards, notes, decks, col,
                              clock>>

\* The continuation call after a tool use settles
ChatContinuationSettles(k, outcome) ==
    /\ Idle
    /\ k \in 1..Len(tasks)
    /\ tasks[k].fn = "chatPOST"
    /\ tasks[k].pc = "continuation"
    /\ CASE outcome = "error" -> ChatFails(k)
         [] outcome \in {"text", "empty"} ->
               ChatAnswers(k, tasks[k].assistantMessage \/ outcome = "text")

\* GET ?sessionId=...: whether the session exists and how many messages
ChatGET(sessionId) ==
    /\ Idle
    /\ resp' = IF sessionId = ""
               THEN [op |-> "chatGET", status |-> 400, error |-> "Missing sessionId"]
               ELSE [op |-> "chatGET", status |-> 200,
                     exists |-> sessionId \in DOMAIN sessions,
                     messageCount |-> Len(MessagesOf(sessions, sessionId))]
    /\ UNCHANGED <<page, tasks, sessions, cards, notes, decks, col, clock>>

MessageArgs == {"", "m"}
SessionIdArgs == {"", "s1"}
ChatDeckArgs == {0, CODING_DECK_ID, OtherDeckId}

NextChat ==
    \/ \E m \in MessageArgs, sid \in SessionIdArgs, d \in ChatDeckArgs :
          ChatPOST(m, sid, d)
    \/ \E k \in 1..MaxInFlight,
          o \in {"error", "text", "empty", "tool_use", "text_tool_use"} :
          ChatCreateSettles(k, o)
    \/ \E k \in 1..MaxInFlight, o \in {"error", "text", "empty"} :
          ChatContinuationSettles(k, o)
    \/ \E sid \in SessionIdArgs : ChatGET(sid)
    \/ Return

\* The chat route starts without sessions, next to one of the initial stores
InitChat ==
    /\ Init
    /\ cards[1].due = InitDay - 1
    /\ cards[2].did = OtherDeckId

\* The chat route under concurrent requests
SpecChat == InitChat /\ [][NextChat]_vars

\* The step ends the chat POST that is k-th in flight
ChatCompletes(k) ==
    /\ k \in 1..Len(tasks)
    /\ tasks[k].fn = "chatPOST"
    /\ tasks' = RemoveAt(tasks, k)
    /\ resp'.op = "chatPOST"

\* C30: chat history is bounded and well-formed.  When a POST to the chat
\* route completes, with whatever other requests on the session in flight,
\* the session holds at most MaxHistory messages; and when the POST completes
\* with a failure and the session holds what the request found plus the user
\* message of the request, the step leaves the session with the messages that
\* the request found.
C30_ChatHistory ==
    [][\A k \in 1..Len(tasks) :
          ChatCompletes(k)
          => LET sid == tasks[k].sessionId
             IN  /\ Len(sessions'[sid].messages) <= MaxHistory
                 /\ (/\ resp'.status = 500
                     /\ sessions[sid].messages = Append(tasks[k].before, "user"))
                    => sessions'[sid].messages = tasks[k].before]_vars

-----------------------------------------------------------------------------
(* The review page (ReviewPage of app/review/page.tsx).  A handler runs to  *)
(* its next await in one step; a suspended handler is an element of tasks  *)
(* and holds the values of the render it was called in (its closure).  A   *)
(* request is served by the route in one step and its response reaches the *)
(* page in a later one; clicks and keys may come in between.  A card of    *)
(* the local queue is its id; deck_name of a card is the name of the deck  *)
(* of its did, and the urgent deck is the deck of that name (db.ts:187).   *)

Max(a, b) == IF a >= b THEN a ELSE b
Min(a, b) == IF a <= b THEN a ELSE b

\* s.slice(0, i) and s.slice(i) of JavaScript, i >= 0
SliceTo(s, i) == SubSeq(s, 1, Min(i, Len(s)))
SliceFrom(s, i) == SubSeq(s, i + 1, Len(s))

\* prev.cards.filter((_, i) => i !== currentIndex)
FilterOut(prevCards, currentIndex) ==
    SliceTo(prevCards, currentIndex) \o SliceFrom(prevCards, currentIndex + 1)

\* [...prev.cards.slice(0, currentIndex), ...prev.cards.slice(currentIndex + 1),
\*  currentCard]
MoveToEnd(prevCards, currentIndex, currentCard) ==
    FilterOut(prevCards, currentIndex) \o <<currentCard>>

\* currentCard.deck_name === 'High importance or urgence tasks'
IsUrgentCard(db, id) == id \in DOMAIN db.cards /\ db.cards[id].did = URGENT_DECK_ID

\* reviewState.cards.filter((c, i) => i !== currentIndex && c.deck_name ===
\* 'High importance or urgence tasks').length
RemainingUrgent(db, cs, currentIndex) ==
    Cardinality({i \in 1..Len(cs) : i # currentIndex + 1 /\ IsUrgentCard(db, cs[i])})

\* Variant: the index moves on to the next position
KeepIndexValid_Advance(index, currentIndex, length) ==
    IF currentIndex >= length - 1 THEN currentIndex + 1 ELSE index

\* "Keep index valid": if (currentIndex >= reviewState.cards.length - 1)
\* setCurrentIndex(Math.max(0, reviewState.cards.length - 2)), with
\* currentIndex and length of the closure; index is the state it may replace
KeepIndexValid(index, currentIndex, length) ==
    IF currentIndex >= length - 1 THEN Max(0, length - 2) ELSE index

\* The card is being displayed: none of the three early returns of the render
Displayed ==
    /\ page.selectedDeckId # NoDeck
    /\ ~page.loading
    /\ ~(page.sessionComplete \/ Len(page.cards) = 0)

\* const currentCard = reviewState.cards[currentIndex] is not undefined
HasCurrentCard == page.currentIndex + 1 \in 1..Len(page.cards)

\* The call fetchDecks() or fetchQueue(deckId) up to its await of fetch
FetchDecksTask == [fn |-> "fetchDecks", pc |-> "fetch"]
FetchQueueTask(deckId) == [fn |-> "fetchQueue", pc |-> "fetch", deckId |-> deckId]

\* handleSelectDeck(deckId), from a deck button of the deck selection screen
\* or of the card screen
HandleSelectDeck(deckId) ==
    /\ page.selectedDeckId = NoDeck \/ Displayed
    /\ deckId \in page.decks
    /\ Len(tasks) < MaxInFlight
    /\ page' = [page EXCEPT !.selectedDeckId = deckId, !.sessionComplete = FALSE,
                            !.currentIndex = 0, !.loading = TRUE]
    /\ tasks' = Append(tasks, FetchQueueTask(deckId))
    /\ UNCHANGED <<sessions, resp, cards, notes, decks, col, clock>>

\* The "Review All" button: setSelectedDeckId(-1); fetchQueue()
ReviewAll ==
    /\ page.selectedDeckId = NoDeck
    /\ page.decks # {}
    /\ Len(tasks) < MaxInFlight
    /\ page' = [page EXCEPT !.selectedDeckId = 0 - 1, !.loading = TRUE]
    /\ tasks' = Append(tasks, FetchQueueTask(NoDeck))
    /\ UNCHANGED <<sessions, resp, cards, notes, decks, col, clock>>

\* handleBackToDecks, from the card screen or the "Review Complete!" screen
HandleBackToDecks ==
    /\ page.selectedDeckId # NoDeck
    /\ ~page.loading
    /\ Len(tasks) < MaxInFlight
    /\ page' = [page EXCEPT !.selectedDeckId = NoDeck, !.sessionComplete = FALSE,
                            !.currentIndex = 0, !.cards = <<>>,
                            !.urgentCount = 0, !.isBlocking = FALSE,
                            !.loading = TRUE]
    /\ tasks' = Append(tasks, FetchDecksTask)
    /\ UNCHANGED <<sessions, resp, cards, notes, decks, col, clock>>

\* handleAction(action) up to its await of the POST, from a button of the
\* card screen or from the keyboard (which is deaf while sessionComplete or
\* loading).  The suspended call keeps currentCard, currentIndex and
\* reviewState of its render
HandleAction(action) ==
    /\ ~page.sessionComplete
    /\ ~page.loading
    /\ HasCurrentCard
    /\ Len(tasks) < MaxInFlight
    /\ tasks' = Append(tasks,
                       [fn |-> "handleAction", pc |-> "post", action |-> action,
                        currentCard |-> page.cards[page.currentIndex + 1],
                        currentIndex |-> page.currentIndex,
                        reviewState |-> [cards |-> page.cards,
                                         isBlocking |-> page.isBlocking]])
    /\ UNCHANGED <<page, sessions, resp, cards, notes, decks, col, clock>>

\* The task waits for the response of a GET
AwaitsGET(t) ==
    t.fn \in {"fetchDecks", "fetchQueue"} \/ (t.fn = "handleAction" /\ t.pc = "fetchQueue")

\* The deckId of the URL that the task fetches: fetchQueue() inside
\* handleAction has none
DeckIdOf(t) == IF t.fn = "fetchQueue" THEN t.deckId ELSE NoDeck

\* The route serves the GET of the k-th task
ServeGET(k, r, us1, us2) ==
    /\ k \in 1..Len(tasks)
    /\ AwaitsGET(tasks[k])
    /\ GET(NULL,
           IF DeckIdOf(tasks[k]) = NoDeck THEN NULL ELSE Digits(DeckIdOf(tasks[k])),
           IF tasks[k].fn = "fetchDecks" THEN STR_true ELSE NULL,
           r, us1, us2)

\* The route serves the POST of the k-th task
ServePOST(k, r) ==
    /\ k \in 1..Len(tasks)
    /\ tasks[k].fn = "handleAction"
    /\ tasks[k].pc = "post"
    /\ POST(tasks[k].currentCard, tasks[k].action, r)

\* The response that the route has sent answers the request of the task
Answers(t) ==
    IF t.fn = "fetchDecks" THEN resp.op = "GET" /\ resp.branch = "listDecks"
    ELSE IF AwaitsGET(t)
    THEN /\ resp.op = "GET"
         /\ IF DeckIdOf(t) = NoDeck THEN resp.branch = "default"
            ELSE resp.branch = "deckId" /\ resp.deckId = DeckIdOf(t)
    ELSE /\ resp.op = "POST"
         /\ resp.cardId = t.currentCard
         /\ resp.action = t.action

\* fetchDecks after its await: setDecks(data.decks), setLoading(false)
FetchDecksResumes(k) ==
    /\ k \in 1..Len(tasks)
    /\ tasks[k].fn = "fetchDecks"
    /\ Answers(tasks[k])
    /\ page' = [page EXCEPT !.decks = {resp.decks[i].id : i \in 1..Len(resp.decks)},
                            !.loading = FALSE]
    /\ tasks' = RemoveAt(tasks, k)
    /\ resp' = NoResp
    /\ UNCHANGED <<sessions, cards, notes, decks, col, clock>>

\* The state that fetchQueue sets after its await, from the response data
Fetched(p, data) ==
    [p EXCEPT !.cards = data.cards, !.urgentCount = data.urgentCount,
              !.isBlocking = data.isBlocking,
              !.sessionComplete = IF Len(data.cards) = 0 THEN TRUE ELSE @,
              !.loading = FALSE]

FetchQueueResumes(k) ==
    /\ k \in 1..Len(tasks)
    /\ tasks[k].fn = "fetchQueue"
    /\ Answers(tasks[k])
    /\ page' = Fetched(page, resp)
    /\ tasks' = RemoveAt(tasks, k)
    /\ resp' = NoResp
    /\ UNCHANGED <<sessions, cards, notes, decks, col, clock>>

\* The end of handleAction, lines 164-172, on the page state p: the index
\* and the end of the session are decided with the closure of the call
Finished(p, t) ==
    [p EXCEPT !.currentIndex = KeepIndexValid(@, t.currentIndex,
                                               Len(t.reviewState.cards)),
              !.sessionComplete =
                  IF Len(t.reviewState.cards) <= 1 /\ t.action # "repeat"
                  THEN TRUE ELSE @]

\* The functional update of reviewState, lines 134-149
Updated(p, t) ==
    IF t.action = "repeat"
    THEN [p EXCEPT !.cards = MoveToEnd(@, t.currentIndex, t.currentCard)]
    ELSE [p EXCEPT !.cards = FilterOut(@, t.currentIndex),
                   !.urgentCount = IF IsUrgentCard(Db, t.currentCard)
                                   THEN @ - 1 ELSE @]

\* The call re-fetches the queue: blocking mode, not repeat, and no other
\* urgent card in the queue of its render
Refetches(t) ==
    /\ t.reviewState.isBlocking
    /\ t.action # "repeat"
    /\ RemainingUrgent(Db, t.reviewState.cards, t.currentIndex) = 0

\* handleAction after the await of its POST: to the await of fetchQueue()
\* if it re-fetches, to its end otherwise
HandleActionResumes(k) ==
    /\ k \in 1..Len(tasks)
    /\ tasks[k].fn = "handleAction"
    /\ tasks[k].pc = "post"
    /\ Answers(tasks[k])
    /\ IF Refetches(tasks[k])
       THEN /\ page' = [Updated(page, tasks[k]) EXCEPT !.loading = TRUE]
            /\ tasks' = [tasks EXCEPT ![k] = [@ EXCEPT !.pc = "fetchQueue"]]
       ELSE /\ page' = Finished(Updated(page, tasks[k]), tasks[k])
            /\ tasks' = RemoveAt(tasks, k)
    /\ resp' = NoResp
    /\ UNCHANGED <<sessions, cards, notes, decks, col, clock>>

\* handleAction after its await of fetchQueue(): the end of fetchQueue, then
\* lines 164-172
HandleActionRefetched(k) ==
    /\ k \in 1..Len(tasks)
    /\ tasks[k].fn = "handleAction"
    /\ tasks[k].pc = "fetchQueue"
    /\ Answers(tasks[k])
    /\ page' = Finished(Fetched(page, resp), tasks[k])
    /\ tasks' = RemoveAt(tasks, k)
    /\ resp' = NoResp
    /\ UNCHANGED <<sessions, cards, notes, decks, col, clock>>

\* The fetch of the k-th task rejects before the route has seen the request:
\* fetchDecks and fetchQueue catch and setLoading(false); handleAction ends
\* in its catch, or goes on after a fetchQueue() that caught
FetchRejects(k) ==
    /\ Idle
    /\ k \in 1..Len(tasks)
    /\ page' = IF tasks[k].fn \in {"fetchDecks", "fetchQueue"}
               THEN [page EXCEPT !.loading = FALSE]
               ELSE IF tasks[k].pc = "fetchQueue"
               THEN Finished([page EXCEPT !.loading = FALSE], tasks[k])
               ELSE page
    /\ tasks' = RemoveAt(tasks, k)
    /\ UNCHANGED <<sessions, resp, cards, notes, decks, col, clock>>

\* The page has just been mounted on a collection of two cards: card 1 of the
\* urgent deck is due; card 2 of the other deck is a new card, or a review
\* card that is due from the coming midnight on
InitPage ==
    /\ \E r2 \in {Row(102, OtherDeckId, 0, 0, 2000000000, 0, 3, 1),
                   Row(102, OtherDeckId, 2, 2, InitDay, 3, 3, 0)} :
          cards = (1 :> Row(101, URGENT_DECK_ID, 2, 2, InitDay - 1, 3, 0, 0))
                  @@ (2 :> r2)
    /\ notes = {101, 102}
    /\ decks = {URGENT_DECK_ID, OtherDeckId}
    /\ col = <<[crt |-> Crt]>>
    /\ clock = InitClock
    /\ resp = NoResp
    /\ page = InitialPage
    /\ tasks = <<FetchDecksTask>>
    /\ sessions = <<>>

\* The draws of the shuffles of the GET of a task
TaskDraws1(t, r) ==
    GetDraws1(IF DeckIdOf(t) = NoDeck THEN NULL ELSE Digits(DeckIdOf(t)),
              IF t.fn = "fetchDecks" THEN STR_true ELSE NULL, r)
TaskDraws2(t, r) ==
    GetDraws2(IF DeckIdOf(t) = NoDeck THEN NULL ELSE Digits(DeckIdOf(t)),
              IF t.fn = "fetchDecks" THEN STR_true ELSE NULL, r)

\* The clock reads of a request of the page: the route serves it in the
\* second of the last clock read or as the next second begins
PageReads(n) == ClockReads(n, clock)

NextPage ==
    \/ \E d \in DeckIdArgs : HandleSelectDeck(d)
    \/ ReviewAll
    \/ HandleBackToDecks
    \/ \E a \in ReviewAction : HandleAction(a)
    \/ \E k \in 1..Len(tasks), r \in PageReads(2 * NumReads(Db)) :
          \E us1 \in TaskDraws1(tasks[k], r), us2 \in TaskDraws2(tasks[k], r) :
             ServeGET(k, r, us1, us2)
    \/ \E k \in 1..Len(tasks), r \in PageReads(3 * NumReads(Db)) : ServePOST(k, r)
    \/ \E k \in 1..Len(tasks) : FetchDecksResumes(k)
    \/ \E k \in 1..Len(tasks) : FetchQueueResumes(k)
    \/ \E k \in 1..Len(tasks) : HandleActionResumes(k)
    \/ \E k \in 1..Len(tasks) : HandleActionRefetched(k)
    \/ \E k \in 1..Len(tasks) : FetchRejects(k)

\* One tab of the review page and the /api/review route
SpecPage == InitPage /\ [][NextPage]_vars

\* The step is the end of the k-th task, a handleAction whose re-fetch of the
\* queue has been answered
Refetched(k) ==
    /\ tasks[k].fn = "handleAction"
    /\ tasks[k].pc = "fetchQueue"
    /\ resp.op = "GET"
    /\ tasks' = RemoveAt(tasks, k)

\* C25: re-fetch in the presentation loop.  When a handleAction that has
\* removed the last urgent card of a blocking queue gets its re-fetched
\* queue, the page holds the re-fetched cards, and if there are any the
\* session goes on: the step does not set sessionComplete.
C25_RefetchContinues ==
    [][\A k \in 1..Len(tasks) :
          Refetched(k)
          => /\ page'.cards = resp.cards
             /\ (resp.cards # <<>> /\ ~page.sessionComplete)
                => ~page'.sessionComplete]_vars

\* C28: the index of the displayed card.  Whenever a card is displayed (a
\* deck is selected, the page is neither loading nor session-complete and
\* the local queue is not empty) currentIndex is at least 0 and less than
\* the length of the local queue.
C28_IndexInRange ==
    Displayed
    => (0 <= page.currentIndex /\ page.currentIndex < Len(page.cards))

\* The only card of the queue of the other deck has been repeated: it is
\* displayed again, at index 0 of a queue of one card, and learning
C28_Witness ==
    /\ Displayed
    /\ tasks = <<>>
    /\ page.selectedDeckId = OtherDeckId
    /\ page.cards = <<2>>
    /\ page.currentIndex = 0
    /\ cards[2].queue = 1

====
